---- MODULE Spec2Model ----
(***************************************************************************)
(* dbt_score.models: ManifestLoader and the entity classes it builds.      *)
(*                                                                         *)
(* Strings whose characters matter (names, select expressions, column      *)
(* names) are sequences of one-character strings; ids and class names are  *)
(* plain strings.  Python objects live in `heap`, keyed by a reference     *)
(* (class, dict key); the loader's dicts are sequences of keys in          *)
(* insertion order, and parents/children are sequences of references.      *)
(***************************************************************************)
EXTENDS Integers, Sequences, FiniteSets, TLC

VARIABLES
    raw_manifest,   \* json.loads(file_path.read_text())
    select,         \* the select argument of ManifestLoader.__init__
    pc,             \* position inside ManifestLoader.__init__
    raw_nodes,      \* self.raw_nodes
    raw_sources,    \* self.raw_sources
    raw_exposures,  \* self.raw_exposures
    tests,          \* self.tests
    models,         \* self.models    (keys, insertion order)
    sources,        \* self.sources
    snapshots,      \* self.snapshots
    exposures,      \* self.exposures
    seeds,          \* self.seeds
    heap,           \* the entity objects, by reference
    dbt_ls_calls,   \* every dbt_ls call made so far: its argument and result
    log,            \* messages given to logger.warning
    command,        \* the cli command that runs: "lint" or "list"
    args,           \* the options click hands to the command
    cli_pc,         \* position inside the command
    config,         \* the local config: <<>> before Config(), then <<its values>>
    evaluation,     \* the local evaluation: <<>> until lint_dbt_project returns
    steps,          \* the collaborators called and the checks made, in order
    raised,         \* the exception raised inside the command, and by what
    errors,         \* what the except clauses gave to logger.error
    exit_code       \* the code given to ctx.exit; 0 when the command returns

loader_vars == <<raw_manifest, select, pc, raw_nodes, raw_sources, raw_exposures,
                 tests, models, sources, snapshots, exposures, seeds, heap,
                 dbt_ls_calls, log>>

cli_vars == <<command, args, cli_pc, config, evaluation, steps, raised, errors,
              exit_code>>

vars == <<loader_vars, cli_vars>>

-----------------------------------------------------------------------------
(* Bounds of the input space.                                              *)

MaxDeps == 2

MaxTests == 2

MaxSelect == 2

MaxLs == 2

-----------------------------------------------------------------------------
(* Python values.                                                          *)

None == "<None>"

\* truthiness of an optional string (an id)
Truthy(x) == x # None /\ x # ""

SeqsUpTo(S, n) == UNION {[1..k -> S] : k \in 0..n}

Range(s) == {s[i] : i \in 1..Len(s)}

ProjectName == "proj"

WordChars ==
    {"a","b","c","d","e","f","g","h","i","j","k","l","m","n","o","p","q","r",
     "s","t","u","v","w","x","y","z",
     "A","B","C","D","E","F","G","H","I","J","K","L","M","N","O","P","Q","R",
     "S","T","U","V","W","X","Y","Z",
     "0","1","2","3","4","5","6","7","8","9","_"}

\* re.compile(r"[a-zA-Z0-9_]+").fullmatch(x)
single_model_select(x) == Len(x) > 0 /\ \A i \in 1..Len(x) : x[i] \in WordChars

\* The backquote character (not writable inside a TLA+ string).
Backquote == "<backquote>"

RECURSIVE lstrip(_)
lstrip(s) == IF Len(s) > 0 /\ Head(s) = Backquote THEN lstrip(Tail(s)) ELSE s

RECURSIVE rstrip(_)
rstrip(s) ==
    IF Len(s) > 0 /\ s[Len(s)] = Backquote THEN rstrip(SubSeq(s, 1, Len(s) - 1)) ELSE s

\* str.strip(Backquote)
strip(s) == rstrip(lstrip(s))

\* test.get("test_metadata", {}).get("kwargs", {}).get("column_name", default)
kwargs_get_column_name(test, default) ==
    IF test.kwargs.has_column_name THEN test.kwargs.column_name ELSE default

\* dict.get(key, []) on self.tests
tests_get(index, key) == IF key \in DOMAIN index THEN index[key] ELSE <<>>

Ref(cls, id) == [cls |-> cls, id |-> id]

NoRef == Ref("None", "")

HasParents(cls) == cls \in {"Model", "Snapshot", "Exposure"}

HasChildren(cls) == cls \in {"Model", "Snapshot", "Source", "Seed"}

HasColumns(cls) == cls \in {"Model", "Snapshot", "Source", "Seed"}

-----------------------------------------------------------------------------
(* The raw manifest: three buckets, each an ordered mapping from the key   *)
(* of a record to the record (the key is the record's unique_id).          *)

NoKwargs == [has_column_name |-> FALSE, column_name |-> <<>>]

ColumnName(c) == [has_column_name |-> TRUE, column_name |-> c]

NodeRecord(id, rt, pkg, name, deps, cols, attached, kw) ==
    [unique_id |-> id, resource_type |-> rt, package_name |-> pkg,
     name |-> name, depends_on |-> deps, columns |-> cols,
     attached_node |-> attached, kwargs |-> kw]

SourceRecord(id, rt, pkg, source_name, name, cols) ==
    [unique_id |-> id, resource_type |-> rt, package_name |-> pkg,
     source_name |-> source_name, name |-> name, columns |-> cols]

ExposureRecord(id, rt, pkg, name, deps) ==
    [unique_id |-> id, resource_type |-> rt, package_name |-> pkg,
     name |-> name, depends_on |-> deps]

Manifest(nodes, srcs, exps) ==
    [project_name |-> ProjectName, nodes |-> nodes, sources |-> srcs,
     exposures |-> exps]

Packages == {ProjectName, "ext"}

\* Manifests that vary the dependency graph: two nodes, a source (whose key
\* may collide with a node key) and an exposure.
GraphManifests ==
    {Manifest(
        <<NodeRecord("n1", rt1, pkg1, <<"a">>, d1, <<>>, None, NoKwargs),
          NodeRecord("n2", rt2, ProjectName, <<"b">>, d2, <<>>, None, NoKwargs)>>,
        <<SourceRecord(sid, "source", spkg, <<"s">>, <<"a">>, <<>>)>>,
        <<ExposureRecord("e1", "exposure", ProjectName, <<"b">>, d3)>>) :
      rt1 \in {"model", "snapshot", "seed"}, pkg1 \in Packages,
      d1 \in {<<>>, <<"n1">>},
      rt2 \in {"model", "snapshot"},
      d2 \in SeqsUpTo({"n1", "s1", "macro"}, MaxDeps),
      sid \in {"s1", "n1"}, spkg \in Packages,
      d3 \in {<<>>, <<"n2", "s1">>}}

\* The shapes of a test record: its package, attached_node, depends_on.nodes
\* and test_metadata.kwargs.
TestShapes ==
    {[pkg |-> ProjectName, attached |-> "n1", deps |-> <<"n1">>, kw |-> kw] :
        kw \in {NoKwargs, ColumnName(<<>>), ColumnName(<<"a">>),
                ColumnName(<<Backquote, "a", Backquote>>), ColumnName(<<"b">>),
                ColumnName(<<"\"", "a", "\"">>)}}
    \cup
    {[pkg |-> ProjectName, attached |-> None, deps |-> d, kw |-> kw] :
        d \in {<<>>, <<"s1">>, <<"n1", "s1">>, <<"s1", "n1">>},
        kw \in {NoKwargs, ColumnName(<<"a">>)}}
    \cup
    {[pkg |-> ProjectName, attached |-> "", deps |-> <<"n1">>, kw |-> NoKwargs],
     [pkg |-> ProjectName, attached |-> "n9", deps |-> <<"n1">>, kw |-> NoKwargs],
     [pkg |-> "ext", attached |-> "n1", deps |-> <<"n1">>, kw |-> NoKwargs]}

TestIds == <<"t1", "t2", "t3", "t4">>

Digits == <<"1", "2", "3", "4">>

TestRecord(i, shape) ==
    NodeRecord(TestIds[i], "test", shape.pkg, <<"t", Digits[i]>>, shape.deps,
               <<>>, shape.attached, shape.kw)

\* The entity the tests are written against: its resource type and columns.
Owners ==
    {NodeRecord("n1", rt, ProjectName, <<"a">>, <<>>, <<<<"a">>>>, None, NoKwargs) :
        rt \in {"model", "snapshot", "seed"}}
    \cup
    {NodeRecord("n1", "model", ProjectName, <<"a">>, <<>>, <<<<"a">>, <<>>>>,
                None, NoKwargs)}

\* An owner and the key of the source beside it: an id of its own or, beside
\* a seed, the owner's.
OwnersAndSources ==
    {<<owner, "s1">> : owner \in Owners}
    \cup {<<owner, "n1">> : owner \in {o \in Owners : o.resource_type = "seed"}}

\* Manifests that vary the test records: an owner, up to MaxTests tests and
\* a source with one column.
TestManifests ==
    {Manifest(
        <<os[1]>> \o [i \in 1..Len(shapes) |-> TestRecord(i, shapes[i])],
        <<SourceRecord(os[2], "source", ProjectName, <<"s">>, <<"a">>,
                       <<<<"a">>>>)>>,
        <<>>) :
      os \in OwnersAndSources, shapes \in SeqsUpTo(TestShapes, MaxTests)}

\* Manifests for selection: the two-models-and-a-source project of the tests
\* with a third node, and projects in which nothing qualifies.
SelectManifests ==
    {Manifest(
        <<NodeRecord("n1", "model", ProjectName, <<"a">>, <<>>, <<>>, None, NoKwargs),
          NodeRecord("n2", "model", ProjectName, <<"b">>, <<"n1", "s1">>, <<>>,
                     None, NoKwargs),
          n3>>,
        <<SourceRecord("s1", "source", ProjectName, <<"s">>, <<"a">>, <<>>)>>,
        <<ExposureRecord("e1", "exposure", ProjectName, <<"b">>, <<"n2">>)>>) :
      n3 \in {NodeRecord("n3", "snapshot", ProjectName, <<"a">>, <<"n2">>, <<>>,
                         None, NoKwargs),
              NodeRecord("n3", "seed", ProjectName, <<"b">>, <<>>, <<>>,
                         None, NoKwargs)}}
    \cup
    {Manifest(<<>>, <<>>, <<>>),
     Manifest(
        <<NodeRecord("n1", "model", "ext", <<"a">>, <<>>, <<>>, None, NoKwargs),
          NodeRecord("n2", "analysis", ProjectName, <<"b">>, <<"n1">>, <<>>,
                     None, NoKwargs)>>,
        <<SourceRecord("s1", "source", "ext", <<"s">>, <<"a">>, <<>>),
          SourceRecord("s2", "model", ProjectName, <<"s">>, <<"b">>, <<>>)>>,
        <<ExposureRecord("e1", "exposure", "ext", <<"b">>, <<"n1">>),
          ExposureRecord("e2", "model", ProjectName, <<"a">>, <<>>)>>)}

SelectExprs == {<<"a">>, <<"b">>, <<"z">>, <<"+", "a">>, <<"s", ".", "a">>}

NoSelect == [given |-> FALSE, exprs |-> <<>>]

Selects == {NoSelect} \cup {[given |-> TRUE, exprs |-> e] :
                              e \in SeqsUpTo(SelectExprs, MaxSelect)}

\* What dbt_ls may return: any sequence of names.
LsNames == {<<"a">>, <<"b">>, <<"s", ".", "a">>}

dbt_ls_results == SeqsUpTo(LsNames, MaxLs)

EmptyMap == [k \in {} |-> <<>>]

-----------------------------------------------------------------------------
(* The command line.                                                       *)

\* Scores and thresholds are the numbers 0..MaxScore; an evaluation holds at
\* most MaxItems item scores.
MaxScore == 2

MaxItems == 2

Scores == 0..MaxScore

\* An option of type float with default None.
NotGiven == [given |-> FALSE, value |-> 0]

Given(x) == [given |-> TRUE, value |-> x]

FloatOptions == {NotGiven} \cup {Given(x) : x \in Scores}

RuleLists == {<<>>, <<"r1">>}

\* The options of lint left at the defaults click gives them.
DefaultArgs ==
    [namespace |-> <<>>, disabled_rule |-> <<>>, selected_rule |-> <<>>,
     manifest_provided |-> FALSE, run_dbt_parse |-> FALSE,
     fail_project_under |-> NotGiven, fail_any_item_under |-> NotGiven,
     show |-> "failing-rules", show_given |-> FALSE, debug |-> FALSE]

\* --show: left out (lint gets the default "failing-rules") or given with one
\* of its choices; show_given is known to click only, lint gets the value.
ShowOptions ==
    {[given |-> FALSE, value |-> "failing-rules"],
     [given |-> TRUE, value |-> "failing-rules"],
     [given |-> TRUE, value |-> "all"]}

\* lint command lines that vary the rule options, the thresholds, or the
\* manifest and parse flags.
LintArgs ==
    {[DefaultArgs EXCEPT !.namespace = ns, !.disabled_rule = dr,
                         !.selected_rule = sr, !.show = sh.value,
                         !.show_given = sh.given, !.debug = dbg] :
        ns \in {<<>>, <<"ns">>}, dr \in RuleLists, sr \in RuleLists,
        sh \in ShowOptions, dbg \in BOOLEAN}
    \cup
    {[DefaultArgs EXCEPT !.fail_project_under = fp, !.fail_any_item_under = fi] :
        fp \in FloatOptions, fi \in FloatOptions}
    \cup
    {[DefaultArgs EXCEPT !.manifest_provided = mp, !.run_dbt_parse = rp,
                         !.disabled_rule = dr, !.selected_rule = sr] :
        mp \in BOOLEAN, rp \in BOOLEAN, dr \in RuleLists, sr \in RuleLists}

\* list has the namespace and rule options only.
ListArgs ==
    {[DefaultArgs EXCEPT !.namespace = ns, !.disabled_rule = dr,
                         !.selected_rule = sr] :
        ns \in {<<>>, <<"ns">>}, dr \in RuleLists, sr \in RuleLists}

NoException == [by |-> None, exc |-> None]

\* The command's state before it runs.
NotStarted ==
    /\ cli_pc = "start"
    /\ config = <<>>
    /\ evaluation = <<>>
    /\ steps = <<>>
    /\ raised = NoException
    /\ errors = <<>>
    /\ exit_code = 0

\* No command runs: the loader is called on its own.
NoCommand ==
    /\ command = None
    /\ args = DefaultArgs
    /\ NotStarted

\* ManifestLoader(file_path, select) called on a manifest, outside a command.
Init ==
    /\ \/ raw_manifest \in GraphManifests /\ select = NoSelect
       \/ raw_manifest \in TestManifests /\ select = NoSelect
       \/ raw_manifest \in SelectManifests /\ select \in Selects
    /\ pc = "read_manifest"
    /\ raw_nodes = <<>>
    /\ raw_sources = <<>>
    /\ raw_exposures = <<>>
    /\ tests = EmptyMap
    /\ models = <<>>
    /\ sources = <<>>
    /\ snapshots = <<>>
    /\ exposures = <<>>
    /\ seeds = <<>>
    /\ heap = EmptyMap
    /\ dbt_ls_calls = <<>>
    /\ log = <<>>
    /\ NoCommand

-----------------------------------------------------------------------------
(* The entity classes.                                                     *)

\* Test.from_node; raw_id stands for _raw_values
Test_from_node(test_node) ==
    [name |-> test_node.name, kwargs |-> test_node.kwargs,
     raw_id |-> test_node.unique_id]

\* Column.from_node_values
Column_from_node_values(name, test_values) ==
    [name |-> name,
     tests |-> [i \in 1..Len(test_values) |-> Test_from_node(test_values[i])]]

\* The filter of HasColumnsMixin._get_columns: the test's column_name,
\* defaulting to the empty string, stripped of backquotes, equals the name.
column_test(test, name) == strip(kwargs_get_column_name(test, <<>>)) = name

_get_columns(node_values, test_values) ==
    [i \in 1..Len(node_values.columns) |->
        Column_from_node_values(
            node_values.columns[i],
            SelectSeq(test_values,
                      LAMBDA test : column_test(test, node_values.columns[i])))]

\* The filter of the tests= argument in every from_node:
\* not test.get("test_metadata", {}).get("kwargs", {}).get("column_name")
entity_test(test) ==
    ~ (test.kwargs.has_column_name /\ Len(test.kwargs.column_name) > 0)

entity_tests(test_values) ==
    LET kept == SelectSeq(test_values, entity_test)
    IN  [i \in 1..Len(kept) |-> Test_from_node(kept[i])]

Model_from_node(node_values, test_values) ==
    [cls |-> "Model", unique_id |-> node_values.unique_id,
     name |-> node_values.name, package_name |-> node_values.package_name,
     columns |-> _get_columns(node_values, test_values),
     tests |-> entity_tests(test_values),
     depends_on |-> node_values.depends_on,
     parents |-> <<>>, children |-> <<>>]

Source_from_node(node_values, test_values) ==
    [cls |-> "Source", unique_id |-> node_values.unique_id,
     name |-> node_values.name, source_name |-> node_values.source_name,
     package_name |-> node_values.package_name,
     columns |-> _get_columns(node_values, test_values),
     tests |-> entity_tests(test_values),
     children |-> <<>>]

Snapshot_from_node(node_values, test_values) ==
    [cls |-> "Snapshot", unique_id |-> node_values.unique_id,
     name |-> node_values.name, package_name |-> node_values.package_name,
     columns |-> _get_columns(node_values, test_values),
     tests |-> entity_tests(test_values),
     depends_on |-> node_values.depends_on,
     parents |-> <<>>, children |-> <<>>]

Exposure_from_node(node_values) ==
    [cls |-> "Exposure", unique_id |-> node_values.unique_id,
     name |-> node_values.name, package_name |-> node_values.package_name,
     depends_on |-> node_values.depends_on,
     parents |-> <<>>]

Seed_from_node(node_values, test_values) ==
    [cls |-> "Seed", unique_id |-> node_values.unique_id,
     name |-> node_values.name, package_name |-> node_values.package_name,
     columns |-> _get_columns(node_values, test_values),
     tests |-> entity_tests(test_values),
     children |-> <<>>]

\* (mutant) the bare name of the source
bare_name(source) == source.name

\* Source.selector_name
selector_name(source) == source.source_name \o <<".">> \o source.name

\* The generated dataclass __eq__: same class and equal field tuples.
dataclass_eq(x, y) == x.cls = y.cls /\ x = y

\* (mutant) the hash also covers the class
entity_hash_with_class(x) == <<"hash", x.cls, x.unique_id>>

\* __hash__ of Model, Source, Snapshot, Exposure and Seed
entity_hash(x) == <<"hash", x.unique_id>>

-----------------------------------------------------------------------------
(* ManifestLoader.                                                         *)

\* (mutant) records of every package are kept
AnyPackage(records) == records

InProject(records) ==
    SelectSeq(records, LAMBDA r : r.package_name = raw_manifest.project_name)

\* __init__, up to the empty collections
ReadManifest ==
    /\ pc = "read_manifest"
    /\ raw_nodes' = InProject(raw_manifest.nodes)
    /\ raw_sources' = InProject(raw_manifest.sources)
    /\ raw_exposures' = InProject(raw_manifest.exposures)
    /\ tests' = EmptyMap
    /\ models' = <<>>
    /\ sources' = <<>>
    /\ snapshots' = <<>>
    /\ exposures' = <<>>
    /\ seeds' = <<>>
    /\ pc' = "reindex_tests"
    /\ UNCHANGED <<cli_vars, raw_manifest, select, heap, dbt_ls_calls, log>>

\* self.tests[key].append(node_values) on the defaultdict
index_append(index, key, node_values) ==
    [k \in DOMAIN index \cup {key} |->
        IF k = key THEN Append(tests_get(index, key), node_values) ELSE index[k]]

\* (mutant) the dependency is used only when it is the only one
only_dependency(node_values) ==
    IF Len(node_values.depends_on) = 1 THEN node_values.depends_on[1] ELSE None

\* next(iter(node_values.get("depends_on", {}).get("nodes", [])), None)
first_dependency(node_values) ==
    IF Len(node_values.depends_on) > 0 THEN node_values.depends_on[1] ELSE None

\* One iteration of the loop of _reindex_tests.
reindex_test(index, node_values) ==
    IF node_values.resource_type = "test"
    THEN IF Truthy(node_values.attached_node)
         THEN index_append(index, node_values.attached_node, node_values)
         ELSE IF Truthy(first_dependency(node_values))
              THEN index_append(index, first_dependency(node_values), node_values)
              ELSE index
    ELSE index

RECURSIVE reindex_tests_from(_, _, _)
reindex_tests_from(index, nodes, i) ==
    IF i > Len(nodes) THEN index
    ELSE reindex_tests_from(reindex_test(index, nodes[i]), nodes, i + 1)

_reindex_tests ==
    /\ pc = "reindex_tests"
    /\ tests' = reindex_tests_from(tests, raw_nodes, 1)
    /\ pc' = "load_models"
    /\ UNCHANGED <<cli_vars, raw_manifest, select, raw_nodes, raw_sources,
                   raw_exposures,
                   models, sources, snapshots, exposures, seeds, heap,
                   dbt_ls_calls, log>>

\* (mutant) the resource type is not looked at
AnyType(records, rt) == records

OfType(records, rt) == SelectSeq(records, LAMBDA r : r.resource_type = rt)

Keys(records) == [i \in 1..Len(records) |-> records[i].unique_id]

\* cls.from_node(node_values, self.tests.get(node_id, [])) of each loader
from_node(cls, node_values) ==
    CASE cls = "Model" ->
            Model_from_node(node_values, tests_get(tests, node_values.unique_id))
      [] cls = "Source" ->
            Source_from_node(node_values, tests_get(tests, node_values.unique_id))
      [] cls = "Snapshot" ->
            Snapshot_from_node(node_values, tests_get(tests, node_values.unique_id))
      [] cls = "Exposure" ->
            Exposure_from_node(node_values)
      [] cls = "Seed" ->
            Seed_from_node(node_values, tests_get(tests, node_values.unique_id))

\* The objects stored by one loader: one per record, under its key.
Loaded(cls, records) ==
    [r \in {Ref(cls, records[i].unique_id) : i \in 1..Len(records)} |->
        from_node(cls, CHOOSE n \in Range(records) : n.unique_id = r.id)]

_load_models ==
    /\ pc = "load_models"
    /\ models' = models \o Keys(OfType(raw_nodes, "model"))
    /\ heap' = Loaded("Model", OfType(raw_nodes, "model")) @@ heap
    /\ pc' = "load_sources"
    /\ UNCHANGED <<cli_vars, raw_manifest, select, raw_nodes, raw_sources,
                   raw_exposures,
                   tests, sources, snapshots, exposures, seeds, dbt_ls_calls, log>>

_load_sources ==
    /\ pc = "load_sources"
    /\ sources' = sources \o Keys(OfType(raw_sources, "source"))
    /\ heap' = Loaded("Source", OfType(raw_sources, "source")) @@ heap
    /\ pc' = "load_snapshots"
    /\ UNCHANGED <<cli_vars, raw_manifest, select, raw_nodes, raw_sources,
                   raw_exposures,
                   tests, models, snapshots, exposures, seeds, dbt_ls_calls, log>>

_load_snapshots ==
    /\ pc = "load_snapshots"
    /\ snapshots' = snapshots \o Keys(OfType(raw_nodes, "snapshot"))
    /\ heap' = Loaded("Snapshot", OfType(raw_nodes, "snapshot")) @@ heap
    /\ pc' = "load_exposures"
    /\ UNCHANGED <<cli_vars, raw_manifest, select, raw_nodes, raw_sources,
                   raw_exposures,
                   tests, models, sources, exposures, seeds, dbt_ls_calls, log>>

_load_exposures ==
    /\ pc = "load_exposures"
    /\ exposures' = exposures \o Keys(OfType(raw_exposures, "exposure"))
    /\ heap' = Loaded("Exposure", OfType(raw_exposures, "exposure")) @@ heap
    /\ pc' = "load_seeds"
    /\ UNCHANGED <<cli_vars, raw_manifest, select, raw_nodes, raw_sources,
                   raw_exposures,
                   tests, models, sources, snapshots, seeds, dbt_ls_calls, log>>

_load_seeds ==
    /\ pc = "load_seeds"
    /\ seeds' = seeds \o Keys(OfType(raw_nodes, "seed"))
    /\ heap' = Loaded("Seed", OfType(raw_nodes, "seed")) @@ heap
    /\ pc' = "populate_relatives"
    /\ UNCHANGED <<cli_vars, raw_manifest, select, raw_nodes, raw_sources,
                   raw_exposures,
                   tests, models, sources, snapshots, exposures, dbt_ls_calls, log>>

\* key in dict
InKeys(keys, k) == \E i \in 1..Len(keys) : keys[i] = k

Refs(cls, keys) == [i \in 1..Len(keys) |-> Ref(cls, keys[i])]

\* (mutant) the seeds are looked up before the sources
resolve_parent_seeds_first(parent_id) ==
    IF InKeys(models, parent_id) THEN Ref("Model", parent_id)
    ELSE IF InKeys(snapshots, parent_id) THEN Ref("Snapshot", parent_id)
    ELSE IF InKeys(seeds, parent_id) THEN Ref("Seed", parent_id)
    ELSE IF InKeys(sources, parent_id) THEN Ref("Source", parent_id)
    ELSE NoRef

\* The if/elif chain of _populate_relatives: the collection whose object a
\* parent_id refers to, if any.
resolve_parent(parent_id) ==
    IF InKeys(models, parent_id) THEN Ref("Model", parent_id)
    ELSE IF InKeys(snapshots, parent_id) THEN Ref("Snapshot", parent_id)
    ELSE IF InKeys(sources, parent_id) THEN Ref("Source", parent_id)
    ELSE IF InKeys(seeds, parent_id) THEN Ref("Seed", parent_id)
    ELSE NoRef

\* (mutant) the child edge is added only once per pair
add_edge_once(h, node, target) ==
    LET h1 == [h EXCEPT ![node].parents = Append(@, target)]
    IN  IF node \in Range(h1[target].children) THEN h1
        ELSE [h1 EXCEPT ![target].children = Append(@, node)]

\* (mutant) the parent is inserted at the front of the list
add_edge_front(h, node, target) ==
    LET h1 == [h EXCEPT ![node].parents = <<target>> \o @]
    IN  [h1 EXCEPT ![target].children = Append(@, node)]

\* node.parents.append(target); target.children.append(node)
add_edge(h, node, target) ==
    LET h1 == [h EXCEPT ![node].parents = Append(@, target)]
    IN  [h1 EXCEPT ![target].children = Append(@, node)]

\* The body of the inner loop for one parent_id.
populate_parent(h, node, parent_id) ==
    IF resolve_parent(parent_id) = NoRef THEN h
    ELSE add_edge(h, node, resolve_parent(parent_id))

RECURSIVE populate_node(_, _, _, _)
populate_node(h, node, deps, i) ==
    IF i > Len(deps) THEN h
    ELSE populate_node(populate_parent(h, node, deps[i]), node, deps, i + 1)

RECURSIVE populate_from(_, _, _)
populate_from(h, nodes, i) ==
    IF i > Len(nodes) THEN h
    ELSE populate_from(populate_node(h, nodes[i], h[nodes[i]].depends_on, 1),
                       nodes, i + 1)

\* list(self.models.values()) + list(self.snapshots.values())
\*   + list(self.exposures.values())
dependents ==
    Refs("Model", models) \o Refs("Snapshot", snapshots)
        \o Refs("Exposure", exposures)

_populate_relatives ==
    /\ pc = "populate_relatives"
    /\ heap' = populate_from(heap, dependents, 1)
    /\ pc' = "select"
    /\ UNCHANGED <<cli_vars, raw_manifest, select, raw_nodes, raw_sources,
                   raw_exposures,
                   tests, models, sources, snapshots, exposures, seeds,
                   dbt_ls_calls, log>>

\* x in selected
In(x, selected) == \E i \in 1..Len(selected) : selected[i] = x

\* all(single_model_select.fullmatch(x) for x in select)
all_single(exprs) == \A i \in 1..Len(exprs) : single_model_select(exprs[i])

\* (mutant) the seeds are left unpruned
prune_but_seeds(selected) ==
    /\ models' = SelectSeq(models,
                    LAMBDA k : In(heap[Ref("Model", k)].name, selected))
    /\ sources' = SelectSeq(sources,
                    LAMBDA k : In(selector_name(heap[Ref("Source", k)]), selected))
    /\ snapshots' = SelectSeq(snapshots,
                    LAMBDA k : In(heap[Ref("Snapshot", k)].name, selected))
    /\ exposures' = SelectSeq(exposures,
                    LAMBDA k : In(heap[Ref("Exposure", k)].name, selected))
    /\ seeds' = seeds

\* The five dict comprehensions of _filter_evaluables.
prune(selected) ==
    /\ models' = SelectSeq(models,
                    LAMBDA k : In(heap[Ref("Model", k)].name, selected))
    /\ sources' = SelectSeq(sources,
                    LAMBDA k : In(selector_name(heap[Ref("Source", k)]), selected))
    /\ snapshots' = SelectSeq(snapshots,
                    LAMBDA k : In(heap[Ref("Snapshot", k)].name, selected))
    /\ exposures' = SelectSeq(exposures,
                    LAMBDA k : In(heap[Ref("Exposure", k)].name, selected))
    /\ seeds' = SelectSeq(seeds,
                    LAMBDA k : In(heap[Ref("Seed", k)].name, selected))

\* (mutant) only the expressions that need resolving are passed on
unresolved_only(exprs) == SelectSeq(exprs, LAMBDA x : ~ single_model_select(x))

\* the argument of dbt_ls(select)
dbt_ls_args(exprs) == exprs

\* (mutant) edges to pruned entities are removed from the survivors
unlink(h, kept) ==
    [r \in DOMAIN h |->
        LET o  == h[r]
            o1 == IF HasParents(r.cls)
                  THEN [o EXCEPT !.parents = SelectSeq(@, LAMBDA q : q \in kept)]
                  ELSE o
        IN  IF HasChildren(r.cls)
            THEN [o1 EXCEPT !.children = SelectSeq(@, LAMBDA q : q \in kept)]
            ELSE o1]

_filter_evaluables_unlinking ==
    /\ pc = "select"
    /\ select.given /\ Len(select.exprs) > 0
    /\ \/ /\ all_single(select.exprs)
          /\ prune(select.exprs)
          /\ UNCHANGED dbt_ls_calls
       \/ /\ ~ all_single(select.exprs)
          /\ \E selected \in dbt_ls_results :
                /\ dbt_ls_calls' = Append(dbt_ls_calls,
                        [args |-> dbt_ls_args(select.exprs), returned |-> selected])
                /\ prune(selected)
    /\ heap' = unlink(heap,
                  Range(Refs("Model", models')) \cup Range(Refs("Source", sources'))
                    \cup Range(Refs("Snapshot", snapshots'))
                    \cup Range(Refs("Exposure", exposures'))
                    \cup Range(Refs("Seed", seeds')))
    /\ pc' = "count"
    /\ UNCHANGED <<cli_vars, raw_manifest, select, raw_nodes, raw_sources,
                   raw_exposures,
                   tests, log>>

\* if select: self._filter_evaluables(select)
_filter_evaluables ==
    /\ pc = "select"
    /\ select.given /\ Len(select.exprs) > 0
    /\ \/ /\ all_single(select.exprs)
          /\ prune(select.exprs)
          /\ UNCHANGED dbt_ls_calls
       \/ /\ ~ all_single(select.exprs)
          /\ \E selected \in dbt_ls_results :
                /\ dbt_ls_calls' = Append(dbt_ls_calls,
                        [args |-> dbt_ls_args(select.exprs), returned |-> selected])
                /\ prune(selected)
    /\ pc' = "count"
    /\ UNCHANGED <<cli_vars, raw_manifest, select, raw_nodes, raw_sources,
                   raw_exposures,
                   tests, heap, log>>

\* (mutant) the guard is "select is not None": an empty list prunes
no_select_unless_given ==
    /\ pc = "select"
    /\ ~ (select.given /\ Len(select.exprs) > 0)
    /\ IF select.given
       THEN prune(select.exprs)
       ELSE UNCHANGED <<models, sources, snapshots, exposures, seeds>>
    /\ pc' = "count"
    /\ UNCHANGED <<cli_vars, raw_manifest, select, raw_nodes, raw_sources,
                   raw_exposures,
                   tests, heap, dbt_ls_calls, log>>

\* if select: is false
no_select ==
    /\ pc = "select"
    /\ ~ (select.given /\ Len(select.exprs) > 0)
    /\ pc' = "count"
    /\ UNCHANGED <<cli_vars, raw_manifest, select, raw_nodes, raw_sources,
                   raw_exposures,
                   tests, models, sources, snapshots, exposures, seeds, heap,
                   dbt_ls_calls, log>>

\* (mutant) only the models are counted
models_count == Len(models)

evaluable_count ==
    Len(models) + Len(sources) + Len(snapshots) + Len(seeds) + Len(exposures)

\* the closing if of __init__
nothing_to_evaluate ==
    /\ pc = "count"
    /\ log' = IF evaluable_count = 0
              THEN Append(log, "Nothing to evaluate!")
              ELSE log
    /\ pc' = "done"
    /\ UNCHANGED <<cli_vars, raw_manifest, select, raw_nodes, raw_sources,
                   raw_exposures,
                   tests, models, sources, snapshots, exposures, seeds, heap,
                   dbt_ls_calls>>

Next ==
    \/ ReadManifest
    \/ _reindex_tests
    \/ _load_models
    \/ _load_sources
    \/ _load_snapshots
    \/ _load_exposures
    \/ _load_seeds
    \/ _populate_relatives
    \/ _filter_evaluables
    \/ no_select
    \/ nothing_to_evaluate

Spec == Init /\ [][Next]_vars

-----------------------------------------------------------------------------
(* The commands of cli.py. Config, dbt_parse, lint_dbt_project and         *)
(* display_catalog are collaborators: what they hand back is an input.     *)

\* What Config.load() may read from the project's configuration file.
ConfigFiles ==
    {[rule_namespaces |-> <<"cfg">>, disabled_rules |-> <<"r0">>,
      selected_rules |-> <<>>, fail_project_under |-> fp,
      fail_any_item_under |-> fi, show |-> "failing-items", debug |-> FALSE] :
        fp \in {0, MaxScore}, fi \in {0, MaxScore}}

\* config.overload({key: value})
overload(cfg, key, value) == [cfg EXCEPT ![key] = value]

\* What lint_dbt_project may return: item scores and a project score.
Evaluations ==
    {[scores |-> sc, project_score |-> p] :
        sc \in SeqsUpTo(Scores, MaxItems), p \in Scores}

\* What dbt_parse and lint_dbt_project may raise.
Exceptions == {"FileNotFoundError", "DbtParseException", "Exception"}

\* (mutant) the two rule options are never in conflict
rules_never_conflict(selected_rule, disabled_rule) == FALSE

\* len(selected_rule) > 0 and len(disabled_rule) > 0
rules_conflict(selected_rule, disabled_rule) ==
    Len(selected_rule) > 0 /\ Len(disabled_rule) > 0

\* raise click.UsageError(...)
UsageError ==
    /\ raised' = [by |-> command, exc |-> "UsageError"]
    /\ cli_pc' = "raised"

\* the two checks that open lint
lint_usage ==
    /\ command = "lint"
    /\ cli_pc = "start"
    /\ IF args.manifest_provided /\ args.run_dbt_parse
       THEN UsageError
       ELSE IF rules_conflict(args.selected_rule, args.disabled_rule)
       THEN UsageError
       ELSE cli_pc' = "config" /\ UNCHANGED raised
    /\ UNCHANGED <<loader_vars, command, args, config, evaluation, steps, errors,
                   exit_code>>

\* if namespace: ... if disabled_rule: ... if selected_rule: ...
overload_rules(cfg, a) ==
    LET c1 == IF Len(a.namespace) > 0
              THEN overload(cfg, "rule_namespaces", a.namespace) ELSE cfg
        c2 == IF Len(a.disabled_rule) > 0
              THEN overload(c1, "disabled_rules", a.disabled_rule) ELSE c1
    IN  IF Len(a.selected_rule) > 0
        THEN overload(c2, "selected_rules", a.selected_rule) ELSE c2

\* if fail_project_under: and if fail_any_item_under:, on a float or None
truthy_float(option) == option.given /\ option.value # 0

\* if fail_project_under: ... if fail_any_item_under: ... if show: ... if debug:
overload_lint(cfg, a) ==
    LET c1 == IF truthy_float(a.fail_project_under)
              THEN overload(cfg, "fail_project_under", a.fail_project_under.value)
              ELSE cfg
        c2 == IF truthy_float(a.fail_any_item_under)
              THEN overload(c1, "fail_any_item_under", a.fail_any_item_under.value)
              ELSE c1
        c3 == IF Truthy(a.show) THEN overload(c2, "show", a.show) ELSE c2
    IN  IF a.debug THEN overload(c3, "debug", a.debug) ELSE c3

\* config = Config(); config.load(); and the overloads of lint
lint_config ==
    /\ command = "lint"
    /\ cli_pc = "config"
    /\ \E file \in ConfigFiles :
          config' = <<overload_lint(overload_rules(file, args), args)>>
    /\ steps' = Append(steps, "Config.load")
    /\ cli_pc' = "try"
    /\ UNCHANGED <<loader_vars, command, args, evaluation, raised, errors,
                   exit_code>>

\* what each except clause gives to logger.error
error_message(exc) ==
    CASE exc = "FileNotFoundError" -> "dbt's manifest.json could not be found."
      [] exc = "DbtParseException" -> "exc"
      [] OTHER -> "traceback"

\* an except clause of lint: logger.error(...); ctx.exit(2)
except_clause(by, exc) ==
    /\ raised' = [by |-> by, exc |-> exc]
    /\ errors' = Append(errors, error_message(exc))
    /\ exit_code' = 2
    /\ cli_pc' = "exited"

\* (mutant) the exception of dbt_parse is logged and lint goes on
lint_dbt_parse_going_on ==
    /\ command = "lint"
    /\ cli_pc = "try"
    /\ IF args.run_dbt_parse
       THEN /\ steps' = Append(steps, "dbt_parse")
            /\ \/ UNCHANGED <<raised, errors>>
               \/ \E exc \in Exceptions :
                     /\ raised' = [by |-> "dbt_parse", exc |-> exc]
                     /\ errors' = Append(errors, error_message(exc))
       ELSE UNCHANGED <<steps, raised, errors>>
    /\ cli_pc' = "lint_dbt_project"
    /\ UNCHANGED <<loader_vars, command, args, config, evaluation, exit_code>>

\* try: if run_dbt_parse: dbt_parse()
lint_dbt_parse ==
    /\ command = "lint"
    /\ cli_pc = "try"
    /\ IF args.run_dbt_parse
       THEN /\ steps' = Append(steps, "dbt_parse")
            /\ \/ /\ cli_pc' = "lint_dbt_project"
                  /\ UNCHANGED <<raised, errors, exit_code>>
               \/ \E exc \in Exceptions : except_clause("dbt_parse", exc)
       ELSE /\ cli_pc' = "lint_dbt_project"
            /\ UNCHANGED <<steps, raised, errors, exit_code>>
    /\ UNCHANGED <<loader_vars, command, args, config, evaluation>>

\* evaluation = lint_dbt_project(...), still inside the try
lint_lint_dbt_project ==
    /\ command = "lint"
    /\ cli_pc = "lint_dbt_project"
    /\ steps' = Append(steps, "lint_dbt_project")
    /\ \/ \E result \in Evaluations :
             /\ evaluation' = <<result>>
             /\ cli_pc' = "thresholds"
             /\ UNCHANGED <<raised, errors, exit_code>>
       \/ \E exc \in Exceptions :
             /\ except_clause("lint_dbt_project", exc)
             /\ UNCHANGED evaluation
    /\ UNCHANGED <<loader_vars, command, args, config>>

\* (mutant) a score equal to the threshold fails too
at_or_below(value, threshold) == value <= threshold

\* x.value < config.fail_any_item_under, project_score.value < config.fail_project_under
below(value, threshold) == value < threshold

\* the condition of the closing if of lint
fails_thresholds(result, cfg) ==
    \/ \E i \in 1..Len(result.scores) :
          below(result.scores[i], cfg.fail_any_item_under)
    \/ below(result.project_score, cfg.fail_project_under)

\* the closing if of lint: ctx.exit(1), or the command returns
lint_thresholds ==
    /\ command = "lint"
    /\ cli_pc = "thresholds"
    /\ steps' = Append(steps, "thresholds")
    /\ IF fails_thresholds(evaluation[1], config[1])
       THEN exit_code' = 1 /\ cli_pc' = "exited"
       ELSE cli_pc' = "returned" /\ UNCHANGED exit_code
    /\ UNCHANGED <<loader_vars, command, args, config, evaluation, raised, errors>>

\* the check that opens list
list_usage ==
    /\ command = "list"
    /\ cli_pc = "start"
    /\ IF rules_conflict(args.selected_rule, args.disabled_rule)
       THEN UsageError
       ELSE cli_pc' = "config" /\ UNCHANGED raised
    /\ UNCHANGED <<loader_vars, command, args, config, evaluation, steps, errors,
                   exit_code>>

\* config = Config(); config.load(); and the overloads of list
list_config ==
    /\ command = "list"
    /\ cli_pc = "config"
    /\ \E file \in ConfigFiles : config' = <<overload_rules(file, args)>>
    /\ steps' = Append(steps, "Config.load")
    /\ cli_pc' = "display_catalog"
    /\ UNCHANGED <<loader_vars, command, args, evaluation, raised, errors,
                   exit_code>>

\* display_catalog(config, title, format)
list_display_catalog ==
    /\ command = "list"
    /\ cli_pc = "display_catalog"
    /\ steps' = Append(steps, "display_catalog")
    /\ cli_pc' = "returned"
    /\ UNCHANGED <<loader_vars, command, args, config, evaluation, raised, errors,
                   exit_code>>

\* click calls lint or list with the options of the command line; the loader
\* is what lint_dbt_project owns and stays as constructed.
CliInit ==
    /\ \/ command = "lint" /\ args \in LintArgs
       \/ command = "list" /\ args \in ListArgs
    /\ NotStarted
    /\ raw_manifest = Manifest(<<>>, <<>>, <<>>)
    /\ select = NoSelect
    /\ pc = "read_manifest"
    /\ raw_nodes = <<>>
    /\ raw_sources = <<>>
    /\ raw_exposures = <<>>
    /\ tests = EmptyMap
    /\ models = <<>>
    /\ sources = <<>>
    /\ snapshots = <<>>
    /\ exposures = <<>>
    /\ seeds = <<>>
    /\ heap = EmptyMap
    /\ dbt_ls_calls = <<>>
    /\ log = <<>>

CliNext ==
    \/ lint_usage
    \/ lint_config
    \/ lint_dbt_parse
    \/ lint_lint_dbt_project
    \/ lint_thresholds
    \/ list_usage
    \/ list_config
    \/ list_display_catalog

CliSpec == CliInit /\ [][CliNext]_vars

-----------------------------------------------------------------------------
(* Vocabulary of the properties.                                           *)

\* __init__ has returned
Done == pc = "done"

\* _populate_relatives has run
RelativesPopulated == pc \in {"select", "count", "done"}

Count(seq, x) == Cardinality({i \in 1..Len(seq) : seq[i] = x})

ParentsOf(r) == IF HasParents(r.cls) THEN heap[r].parents ELSE <<>>

ChildrenOf(r) == IF HasChildren(r.cls) THEN heap[r].children ELSE <<>>

RelativesOf(r) == Range(ParentsOf(r)) \cup Range(ChildrenOf(r))

\* The in-project raw test records.
RawTests == {t \in Range(raw_nodes) : t.resource_type = "test"}

\* The keys of self.tests under which a raw test record is indexed.
IndexedUnder(t) == {k \in DOMAIN tests : t \in Range(tests[k])}

\* The loaded entities that carry tests and columns.
ColumnEntities == {r \in DOMAIN heap : HasColumns(r.cls)}

Attached(test_list, t) == \E i \in 1..Len(test_list) : test_list[i].raw_id = t.unique_id

\* The test's column_name argument, stripped of backquotes, names column c.
NamesColumn(t, c) ==
    /\ t.kwargs.has_column_name
    /\ Len(t.kwargs.column_name) > 0
    /\ strip(t.kwargs.column_name) = c.name

\* The loaded entity objects.
Entities == {heap[r] : r \in DOMAIN heap}

\* The entities held by the five collections.
CollectionRefs ==
    Range(Refs("Model", models)) \cup Range(Refs("Source", sources))
        \cup Range(Refs("Snapshot", snapshots))
        \cup Range(Refs("Exposure", exposures))
        \cup Range(Refs("Seed", seeds))

\* The bucket of the raw manifest a class is loaded from.
Bucket(cls) ==
    IF cls \in {"Model", "Snapshot", "Seed"} THEN raw_manifest.nodes
    ELSE IF cls = "Source" THEN raw_manifest.sources
    ELSE raw_manifest.exposures

InProjectRecord(r) ==
    \E n \in Range(Bucket(r.cls)) :
        n.unique_id = r.id /\ n.package_name = raw_manifest.project_name

AllRecords ==
    Range(raw_manifest.nodes) \cup Range(raw_manifest.sources)
        \cup Range(raw_manifest.exposures)

\* The id belongs to records of other packages only.
ExternalId(id) ==
    /\ \E n \in AllRecords : n.unique_id = id
    /\ \A n \in AllRecords :
          n.unique_id = id => n.package_name # raw_manifest.project_name

\* The select list is non-empty and made of bare tokens.
FastPath ==
    /\ select.given
    /\ Len(select.exprs) > 0
    /\ \A i \in 1..Len(select.exprs) : single_model_select(select.exprs[i])

\* Keys of the in-project records of a resource type whose name is selected.
Named(records, rt, selected) ==
    Keys(SelectSeq(OfType(records, rt), LAMBDA n : In(n.name, selected)))

\* Keys of the in-project source records whose selector name is selected.
SelectorNamed(selected) ==
    Keys(SelectSeq(OfType(raw_sources, "source"),
                   LAMBDA n : In(n.source_name \o <<".">> \o n.name, selected)))

Ids(refs) == [i \in 1..Len(refs) |-> refs[i].id]

\* The id is the key of an in-project record that a loader turns into a
\* model, snapshot, seed (nodes bucket) or source (sources bucket).
Resolvable(id) ==
    \/ \E n \in Range(raw_manifest.nodes) :
          /\ n.unique_id = id
          /\ n.package_name = raw_manifest.project_name
          /\ n.resource_type \in {"model", "snapshot", "seed"}
    \/ \E n \in Range(raw_manifest.sources) :
          /\ n.unique_id = id
          /\ n.package_name = raw_manifest.project_name
          /\ n.resource_type = "source"

\* The id is a key of one of the four collections before selection.
IsLoadedKey(id) ==
    \E cls \in {"Model", "Snapshot", "Source", "Seed"} : Ref(cls, id) \in DOMAIN heap

\* The object the first collection holding the key holds for it, in the
\* order models, snapshots, sources, seeds.
FirstLoaded(id) ==
    IF Ref("Model", id) \in DOMAIN heap THEN Ref("Model", id)
    ELSE IF Ref("Snapshot", id) \in DOMAIN heap THEN Ref("Snapshot", id)
    ELSE IF Ref("Source", id) \in DOMAIN heap THEN Ref("Source", id)
    ELSE Ref("Seed", id)

FirstLoadedOf(ids) == [i \in 1..Len(ids) |-> FirstLoaded(ids[i])]

\* Keys of the in-project records of a bucket that have a resource type.
FromBucket(bucket, rt) ==
    Keys(SelectSeq(bucket,
                   LAMBDA n : /\ n.package_name = raw_manifest.project_name
                              /\ n.resource_type = rt))

-----------------------------------------------------------------------------
(* C1: once relatives are populated, B occurs in A.children exactly as     *)
(* many times as A occurs in B.parents, for all loaded entities A and B.   *)
C1_EdgesSymmetric ==
    RelativesPopulated =>
        \A a \in DOMAIN heap : \A b \in DOMAIN heap :
            Count(ChildrenOf(a), b) = Count(ParentsOf(b), a)

\* a dependency id listed twice gives a double edge on both sides
C1_Witness ==
    /\ Done
    /\ \E a \in DOMAIN heap : \E b \in DOMAIN heap :
          a # b /\ Count(ChildrenOf(a), b) = 2 /\ Count(ParentsOf(b), a) = 2

(* C2: every test indexed under a loaded entity with columns is attached   *)
(* to the column its column_name names and not to the entity, or, when it  *)
(* names no declared column, to the entity.                                *)
C2_TestOnColumnOrEntity ==
    Done =>
        \A r \in ColumnEntities : \A t \in Range(tests_get(tests, r.id)) :
            IF \E i \in 1..Len(heap[r].columns) : NamesColumn(t, heap[r].columns[i])
            THEN /\ \A i \in 1..Len(heap[r].columns) :
                        NamesColumn(t, heap[r].columns[i])
                            => Attached(heap[r].columns[i].tests, t)
                 /\ ~ Attached(heap[r].tests, t)
            ELSE Attached(heap[r].tests, t)

(* C3, as claimed: an in-project test record is indexed under its          *)
(* attached_node if it has one, otherwise under its dependency only if it  *)
(* has exactly one, otherwise nowhere.                                     *)
C3_ExactlyOneDependency ==
    pc # "read_manifest" /\ pc # "reindex_tests" =>
        \A t \in RawTests :
            IndexedUnder(t) =
                IF Truthy(t.attached_node) THEN {t.attached_node}
                ELSE IF Len(t.depends_on) = 1 THEN {t.depends_on[1]}
                ELSE {}

(* C3, amended: an in-project test record is indexed under its non-empty   *)
(* attached_node if it has one, otherwise under its first dependency if it *)
(* has at least one (non-empty), otherwise nowhere.                        *)
C3_FirstDependency ==
    pc # "read_manifest" /\ pc # "reindex_tests" =>
        \A t \in RawTests :
            IndexedUnder(t) =
                IF Truthy(t.attached_node) THEN {t.attached_node}
                ELSE IF Len(t.depends_on) >= 1 /\ Truthy(t.depends_on[1])
                     THEN {t.depends_on[1]}
                ELSE {}

\* a test without attached_node and with two dependencies is indexed under
\* the first, and a test with neither is indexed nowhere
C3_Witness ==
    /\ Done
    /\ \E t \in RawTests :
          /\ ~ Truthy(t.attached_node)
          /\ Len(t.depends_on) = 2
          /\ IndexedUnder(t) = {t.depends_on[1]}
    /\ \E t \in RawTests :
          ~ Truthy(t.attached_node) /\ Len(t.depends_on) = 0 /\ IndexedUnder(t) = {}

(* C4: after loading, every entity found in a parents or children list has *)
(* itself empty parents and children.                                      *)
C4_RelativesCarryNoEdges ==
    Done =>
        \A a \in DOMAIN heap : \A r \in RelativesOf(a) :
            ParentsOf(r) = <<>> /\ ChildrenOf(r) = <<>>

(* C5, as claimed: two entities with the same unique_id compare equal and  *)
(* hash alike whatever their other fields hold, and two entities with      *)
(* different unique_id compare unequal.                                    *)
C5_EqualityByIdOnly ==
    \A x \in Entities : \A y \in Entities :
        /\ x.unique_id = y.unique_id =>
              dataclass_eq(x, y) /\ entity_hash(x) = entity_hash(y)
        /\ x.unique_id # y.unique_id => ~ dataclass_eq(x, y)

(* C5, amended: the hash is a function of unique_id alone; equality is the *)
(* field-wise dataclass equality, so entities with different unique_id are *)
(* unequal, equal entities hash alike, and entities with the same          *)
(* unique_id are equal only if their class and every field agree.          *)
C5_HashByIdEqualityByFields ==
    \A x \in Entities : \A y \in Entities :
        /\ x.unique_id = y.unique_id => entity_hash(x) = entity_hash(y)
        /\ x.unique_id # y.unique_id => ~ dataclass_eq(x, y)
        /\ dataclass_eq(x, y) => entity_hash(x) = entity_hash(y)
        /\ dataclass_eq(x, y) => x.cls = y.cls /\ x.name = y.name

\* two loaded entities share a unique_id, hash alike and yet are unequal
C5_Witness ==
    \E x \in Entities : \E y \in Entities :
        /\ x.unique_id = y.unique_id
        /\ entity_hash(x) = entity_hash(y)
        /\ ~ dataclass_eq(x, y)

(* C6: after loading, every entity of the five collections belongs to the  *)
(* project, and every entity in a parents or children list was loaded from *)
(* an in-project record of its bucket: no edge points to an external       *)
(* package.                                                                *)
C6_EdgesStayInProject ==
    Done =>
        /\ \A r \in CollectionRefs :
              heap[r].package_name = raw_manifest.project_name
        /\ \A a \in DOMAIN heap : \A r \in RelativesOf(a) :
              /\ r \in DOMAIN heap
              /\ heap[r].package_name = raw_manifest.project_name
              /\ InProjectRecord(r)

\* a dependent lists the id of an external record and still has a parent
C6_Witness ==
    /\ Done
    /\ \E a \in DOMAIN heap :
          /\ HasParents(a.cls)
          /\ \E i \in 1..Len(heap[a].depends_on) : ExternalId(heap[a].depends_on[i])
          /\ ParentsOf(a) # <<>>

(* C7: with a non-empty select list of bare tokens, models, snapshots,     *)
(* seeds and exposures end as exactly the loaded entities whose name is in *)
(* the list, and dbt_ls is not called.                                     *)
C7_LiteralSelection ==
    pc \in {"count", "done"} /\ FastPath =>
        /\ models = Named(raw_nodes, "model", select.exprs)
        /\ snapshots = Named(raw_nodes, "snapshot", select.exprs)
        /\ seeds = Named(raw_nodes, "seed", select.exprs)
        /\ exposures = Named(raw_exposures, "exposure", select.exprs)
        /\ dbt_ls_calls = <<>>

\* a literal selection keeps one model and removes another
C7_Witness ==
    /\ Done
    /\ FastPath
    /\ Len(models) >= 1
    /\ \E r \in DOMAIN heap : r.cls = "Model" /\ ~ InKeys(models, r.id)
    /\ \E r \in DOMAIN heap : r.cls = "Seed" /\ ~ InKeys(seeds, r.id)

(* C8: dbt_ls is called at most once per load, only when some select       *)
(* expression is not a bare token, with the complete select list, and the  *)
(* collections are then exactly the entities whose name (selector_name for *)
(* sources) is in the sequence it returned.                                *)
C8_ResolverOnce ==
    /\ Len(dbt_ls_calls) <= 1
    /\ Len(dbt_ls_calls) = 1 =>
          /\ select.given
          /\ \E i \in 1..Len(select.exprs) : ~ single_model_select(select.exprs[i])
          /\ dbt_ls_calls[1].args = select.exprs
          /\ models = Named(raw_nodes, "model", dbt_ls_calls[1].returned)
          /\ snapshots = Named(raw_nodes, "snapshot", dbt_ls_calls[1].returned)
          /\ seeds = Named(raw_nodes, "seed", dbt_ls_calls[1].returned)
          /\ exposures = Named(raw_exposures, "exposure", dbt_ls_calls[1].returned)
          /\ sources = SelectorNamed(dbt_ls_calls[1].returned)

\* dbt_ls was called for a list mixing a bare token with an operator
\* expression, and a source survived
C8_Witness ==
    /\ Done
    /\ Len(dbt_ls_calls) = 1
    /\ \E i \in 1..Len(select.exprs) : single_model_select(select.exprs[i])
    /\ Len(sources) >= 1
    /\ Len(models) >= 1

(* C9: the selection step changes no entity object: every survivor keeps   *)
(* the parents and children it had, and the collections only lose keys.    *)
C9_PruningKeepsEdges ==
    [][pc = "select" =>
          /\ \A r \in CollectionRefs' :
                /\ r \in DOMAIN heap /\ r \in DOMAIN heap'
                /\ heap'[r] = heap[r]
          /\ Range(models') \subseteq Range(models)
          /\ Range(sources') \subseteq Range(sources)
          /\ Range(snapshots') \subseteq Range(snapshots)
          /\ Range(exposures') \subseteq Range(exposures)
          /\ Range(seeds') \subseteq Range(seeds)]_vars

\* a survivor's parent was pruned from the collections and still carries
\* its own children
C9_Witness ==
    /\ Done
    /\ \E r \in CollectionRefs : \E q \in Range(ParentsOf(r)) :
          q \notin CollectionRefs /\ ChildrenOf(q) # <<>>

(* C10: a load always runs to completion; once it has, the notice          *)
(* "Nothing to evaluate!" has been logged if and only if the five          *)
(* collections are all empty.                                              *)
C10_NothingToEvaluate ==
    /\ ~ Done => ENABLED Next
    /\ Done =>
          (In("Nothing to evaluate!", log)
              <=> Len(models) + Len(sources) + Len(snapshots) + Len(seeds)
                    + Len(exposures) = 0)
    /\ Done /\ In("Nothing to evaluate!", log) =>
          /\ models = <<>> /\ sources = <<>> /\ snapshots = <<>>
          /\ seeds = <<>> /\ exposures = <<>>
          /\ Len(log) = 1

\* entities were loaded, the selection matched none of them, and the notice
\* was logged
C10_Witness ==
    /\ Done
    /\ select.given
    /\ DOMAIN heap # {}
    /\ models = <<>> /\ sources = <<>> /\ snapshots = <<>>
    /\ seeds = <<>> /\ exposures = <<>>
    /\ log = <<"Nothing to evaluate!">>

(* C11: a test whose column_name is empty or missing is attached to the    *)
(* tests of the entity it is indexed under and to no column of it, not     *)
(* even a column whose name is the empty string.                           *)
C11_NoColumnNameStaysOnEntity ==
    Done =>
        \A r \in ColumnEntities : \A t \in Range(tests_get(tests, r.id)) :
            ~ (t.kwargs.has_column_name /\ Len(t.kwargs.column_name) > 0) =>
                /\ Attached(heap[r].tests, t)
                /\ \A i \in 1..Len(heap[r].columns) :
                      ~ Attached(heap[r].columns[i].tests, t)

(* C12: the parents of every model, snapshot and exposure are, in order,   *)
(* the ids of its depends_on list that are keys of a loaded model,         *)
(* snapshot, source or seed; every child of an entity lists that entity's  *)
(* id in its depends_on; and in the project where model b depends on       *)
(* model a and source s, b.parents = [a, s] and a.parents = [].            *)
C12_ParentsFollowDependsOn ==
    RelativesPopulated =>
        /\ \A r \in DOMAIN heap :
              HasParents(r.cls) =>
                 Ids(heap[r].parents) = SelectSeq(heap[r].depends_on, Resolvable)
        /\ \A r \in DOMAIN heap : \A c \in Range(ChildrenOf(r)) :
              HasParents(c.cls) /\ r.id \in Range(heap[c].depends_on)
        /\ raw_manifest \in SelectManifests /\ Len(raw_manifest.nodes) = 3 =>
              /\ heap[Ref("Model", "n2")].parents
                    = <<Ref("Model", "n1"), Ref("Source", "s1")>>
              /\ heap[Ref("Model", "n1")].parents = <<>>
              /\ heap[Ref("Model", "n1")].children = <<Ref("Model", "n2")>>
              /\ heap[Ref("Source", "s1")].children = <<Ref("Model", "n2")>>

\* a dependent lists a resolvable id, then an id that resolves to nothing
\* (a macro or an external record), and has exactly the one parent
C12_Witness ==
    /\ Done
    /\ \E r \in DOMAIN heap :
          /\ HasParents(r.cls)
          /\ Len(heap[r].depends_on) = 2
          /\ Resolvable(heap[r].depends_on[1])
          /\ ~ Resolvable(heap[r].depends_on[2])
          /\ Len(heap[r].parents) = 1
          /\ heap[r].parents[1].id = heap[r].depends_on[1]

(* C15: every dependency reference gives exactly the edge to the first of  *)
(* models, snapshots, sources, seeds that holds the id as a key, or no     *)
(* edge: one parent edge and one child edge per resolved reference, and a  *)
(* later collection holding the same key receives nothing.                 *)
C15_ResolutionPrecedence ==
    RelativesPopulated =>
        \A r \in DOMAIN heap :
            HasParents(r.cls) =>
               /\ heap[r].parents
                     = FirstLoadedOf(SelectSeq(heap[r].depends_on, IsLoadedKey))
               /\ \A q \in DOMAIN heap :
                     Count(ChildrenOf(q), r)
                        = Cardinality({i \in 1..Len(heap[r].depends_on) :
                              /\ IsLoadedKey(heap[r].depends_on[i])
                              /\ FirstLoaded(heap[r].depends_on[i]) = q})

\* an id is a key of both sources and seeds; the dependent's parent is the
\* source and the seed has no child
C15_Witness ==
    /\ Done
    /\ \E r \in {x \in DOMAIN heap : HasParents(x.cls)} :
       \E id \in Range(heap[r].depends_on) :
          /\ Ref("Source", id) \in DOMAIN heap
          /\ Ref("Seed", id) \in DOMAIN heap
          /\ Ref("Source", id) \in Range(heap[r].parents)
          /\ heap[Ref("Seed", id)].children = <<>>
          /\ r \in Range(heap[Ref("Source", id)].children)

(* C16: the collections hold only keys of in-project records of their      *)
(* bucket whose resource_type is theirs (all of them, until selection);    *)
(* models, snapshots and seeds never share a key.                          *)
C16_ResourceTypeMatchesBucket ==
    /\ Range(models) \subseteq Range(FromBucket(raw_manifest.nodes, "model"))
    /\ Range(snapshots) \subseteq Range(FromBucket(raw_manifest.nodes, "snapshot"))
    /\ Range(seeds) \subseteq Range(FromBucket(raw_manifest.nodes, "seed"))
    /\ Range(sources) \subseteq Range(FromBucket(raw_manifest.sources, "source"))
    /\ Range(exposures)
          \subseteq Range(FromBucket(raw_manifest.exposures, "exposure"))
    /\ Range(models) \cap Range(snapshots) = {}
    /\ Range(models) \cap Range(seeds) = {}
    /\ Range(snapshots) \cap Range(seeds) = {}
    /\ pc \in {"populate_relatives", "select"} =>
          /\ models = FromBucket(raw_manifest.nodes, "model")
          /\ snapshots = FromBucket(raw_manifest.nodes, "snapshot")
          /\ seeds = FromBucket(raw_manifest.nodes, "seed")
          /\ sources = FromBucket(raw_manifest.sources, "source")
          /\ exposures = FromBucket(raw_manifest.exposures, "exposure")

\* in-project records whose resource_type is not the bucket's were scanned
\* and are in no collection
C16_Witness ==
    /\ pc = "select"
    /\ \E n \in Range(raw_sources) :
          n.resource_type # "source" /\ ~ InKeys(sources, n.unique_id)
    /\ \E n \in Range(raw_exposures) :
          n.resource_type # "exposure" /\ ~ InKeys(exposures, n.unique_id)
    /\ \E n \in Range(raw_nodes) :
          /\ n.resource_type \notin {"model", "snapshot", "seed"}
          /\ ~ InKeys(models, n.unique_id)
          /\ ~ InKeys(snapshots, n.unique_id)
          /\ ~ InKeys(seeds, n.unique_id)

(* C18: with no select argument or an empty select list, the load ends     *)
(* with every constructed in-project entity in its collection and without  *)
(* a call of dbt_ls.                                                       *)
C18_NoSelectionNoPruning ==
    Done /\ ~ (select.given /\ Len(select.exprs) > 0) =>
        /\ dbt_ls_calls = <<>>
        /\ CollectionRefs = DOMAIN heap
        /\ models = FromBucket(raw_manifest.nodes, "model")
        /\ snapshots = FromBucket(raw_manifest.nodes, "snapshot")
        /\ seeds = FromBucket(raw_manifest.nodes, "seed")
        /\ sources = FromBucket(raw_manifest.sources, "source")
        /\ exposures = FromBucket(raw_manifest.exposures, "exposure")

\* an empty select list was given and the loaded entities are all there
C18_Witness ==
    /\ Done
    /\ select.given
    /\ select.exprs = <<>>
    /\ Len(models) = 2
    /\ Len(sources) = 1
    /\ Len(exposures) = 1

(* C19: after a selection the sources are those whose selector_name        *)
(* (source_name.name) is selected; on the literal-name path that leaves no *)
(* source, even one whose bare name is in the select list.                 *)
C19_SourcesBySelectorName ==
    pc \in {"count", "done"} /\ select.given /\ Len(select.exprs) > 0 =>
        /\ FastPath => sources = <<>>
        /\ sources = SelectorNamed(
              IF FastPath THEN select.exprs ELSE dbt_ls_calls[1].returned)

\* the bare name of a loaded source is in a literal select list and the
\* source is pruned
C19_Witness ==
    /\ Done
    /\ FastPath
    /\ \E r \in DOMAIN heap :
          r.cls = "Source" /\ In(heap[r].name, select.exprs)
    /\ sources = <<>>
    /\ Len(models) >= 1

\* The entity or one of its columns carries the test.
AttachedTo(r, t) ==
    \/ Attached(heap[r].tests, t)
    \/ \E i \in 1..Len(heap[r].columns) : Attached(heap[r].columns[i].tests, t)

\* The position of the record with a unique_id in the raw nodes bucket.
Position(id) ==
    CHOOSE i \in 1..Len(raw_manifest.nodes) : raw_manifest.nodes[i].unique_id = id

\* The tests of a list follow the iteration order of the raw nodes bucket.
InBucketOrder(test_list) ==
    \A i, j \in 1..Len(test_list) :
        i < j => Position(test_list[i].raw_id) < Position(test_list[j].raw_id)

\* Every raw test record is indexed under at most one owner id, its
\* attached_node before its dependency list.
C20_OneOwnerId ==
    \A t \in RawTests :
        /\ Cardinality(IndexedUnder(t)) <= 1
        /\ Truthy(t.attached_node) => IndexedUnder(t) \subseteq {t.attached_node}
        /\ \A k \in IndexedUnder(t) : Count(Keys(tests[k]), t.unique_id) = 1

\* Test records of another package, and those whose owner id is not a
\* loaded entity, are attached to no entity.
C20_UnownedAttachedNowhere ==
    Done =>
        \A t \in {n \in Range(raw_manifest.nodes) : n.resource_type = "test"} :
            \/ t.package_name # raw_manifest.project_name
            \/ \A k \in IndexedUnder(t) : \A r \in ColumnEntities : r.id # k
            => \A r \in ColumnEntities : ~ AttachedTo(r, t)

\* The tests of an entity and of its columns keep the order of the bucket.
C20_BucketOrderKept ==
    Done =>
        \A r \in ColumnEntities :
            /\ InBucketOrder(heap[r].tests)
            /\ \A i \in 1..Len(heap[r].columns) :
                  InBucketOrder(heap[r].columns[i].tests)

(* C20: every raw test record is indexed under at most one owner id, so    *)
(* after loading no test record is attached to two different entities;     *)
(* tests of another package or with an owner id that is no loaded entity   *)
(* are attached to no entity; attached tests keep the order of the raw     *)
(* nodes bucket.                                                           *)
C20_OneOwningEntity ==
    /\ C20_OneOwnerId
    /\ C20_UnownedAttachedNowhere
    /\ C20_BucketOrderKept
    /\ Done =>
          \A t \in RawTests : \A r1, r2 \in ColumnEntities :
              AttachedTo(r1, t) /\ AttachedTo(r2, t) => r1 = r2

\* The command has ended: it raised, called ctx.exit, or returned.
Ended == cli_pc \in {"raised", "exited", "returned"}

\* The positions in steps of a collaborator's calls.
CallsOf(step) == {i \in 1..Len(steps) : steps[i] = step}

(* C13: in lint and in list, a command line with at least one              *)
(* --selected-rule and at least one --disabled-rule ends in a usage error  *)
(* with no configuration loaded and no collaborator called.                *)
C13_RuleOptionsExclusive ==
    /\ command \in {"lint", "list"}
    /\ Len(args.selected_rule) > 0
    /\ Len(args.disabled_rule) > 0
    => /\ steps = <<>>
       /\ config = <<>>
       /\ evaluation = <<>>
       /\ errors = <<>>
       /\ cli_pc \in {"start", "raised"}
       /\ cli_pc = "raised" => raised = [by |-> command, exc |-> "UsageError"]

\* list was given both rule options, with nothing else wrong, and raised
C13_Witness ==
    /\ command = "list"
    /\ args.selected_rule = <<"r1">>
    /\ args.disabled_rule = <<"r1">>
    /\ cli_pc = "raised"
    /\ raised.exc = "UsageError"
    /\ steps = <<>>

(* C14: when lint_dbt_project returned, lint ends with status 1 if some    *)
(* item score is below the configuration's fail_any_item_under or the      *)
(* project score is below its fail_project_under, and with status 0        *)
(* otherwise.                                                              *)
C14_ExitOneIffBelowThreshold ==
    command = "lint" /\ Ended /\ Len(evaluation) = 1 =>
        LET scores == evaluation[1].scores
            under ==
                \/ \E i \in 1..Len(scores) :
                      scores[i] < config[1].fail_any_item_under
                \/ evaluation[1].project_score < config[1].fail_project_under
        IN  /\ under => cli_pc = "exited" /\ exit_code = 1
            /\ ~ under => cli_pc = "returned" /\ exit_code = 0

\* one item of two is below its threshold, the project score is not, and
\* lint exits with 1
C14_Witness ==
    /\ command = "lint"
    /\ cli_pc = "exited"
    /\ exit_code = 1
    /\ Len(evaluation) = 1
    /\ Len(evaluation[1].scores) = 2
    /\ evaluation[1].scores[1] >= config[1].fail_any_item_under
    /\ evaluation[1].scores[2] < config[1].fail_any_item_under
    /\ evaluation[1].project_score = config[1].fail_project_under

(* C17: lint calls lint_dbt_project only after dbt_parse, when             *)
(* --run-dbt-parse is set, has returned; an exception of either ends lint  *)
(* with status 2, nothing is called after it and the thresholds are never  *)
(* checked.                                                                *)
C17_ExceptionsExitTwo ==
    /\ \A i \in CallsOf("lint_dbt_project") :
          /\ args.run_dbt_parse => CallsOf("dbt_parse") = {i - 1}
          /\ ~ args.run_dbt_parse => CallsOf("dbt_parse") = {}
          /\ raised.by # "dbt_parse"
    /\ raised.by \in {"dbt_parse", "lint_dbt_project"} =>
          /\ cli_pc = "exited"
          /\ exit_code = 2
          /\ steps[Len(steps)] = raised.by
          /\ CallsOf("thresholds") = {}
          /\ evaluation = <<>>
          /\ Len(errors) = 1

\* dbt_parse raised: lint_dbt_project was not called and lint exited with 2
C17_Witness ==
    /\ cli_pc = "exited"
    /\ args.run_dbt_parse
    /\ raised = [by |-> "dbt_parse", exc |-> "DbtParseException"]
    /\ steps = <<"Config.load", "dbt_parse">>
    /\ exit_code = 2

\* What the configuration holds when every option given on the command line
\* replaces the value loaded from the file and no other value changes.
GivenOverFile(file, a) ==
    [rule_namespaces |->
        IF Len(a.namespace) > 0 THEN a.namespace ELSE file.rule_namespaces,
     disabled_rules |->
        IF Len(a.disabled_rule) > 0 THEN a.disabled_rule ELSE file.disabled_rules,
     selected_rules |->
        IF Len(a.selected_rule) > 0 THEN a.selected_rule ELSE file.selected_rules,
     fail_project_under |->
        IF a.fail_project_under.given
        THEN a.fail_project_under.value ELSE file.fail_project_under,
     fail_any_item_under |->
        IF a.fail_any_item_under.given
        THEN a.fail_any_item_under.value ELSE file.fail_any_item_under,
     show |-> IF a.show_given THEN a.show ELSE file.show,
     debug |-> IF a.debug THEN TRUE ELSE file.debug]

\* lint has built its configuration.
LintConfigured == command = "lint" /\ Len(config) = 1

\* The rule options, --debug, a --show that is given and a threshold that is
\* given and not 0 are in the configuration; a threshold that is not given
\* leaves a value of the file.
C21_NonZeroValuesOverride ==
    LintConfigured =>
        \E file \in ConfigFiles :
            /\ \A key \in {"rule_namespaces", "disabled_rules", "selected_rules",
                           "debug"} :
                  config[1][key] = GivenOverFile(file, args)[key]
            /\ args.show_given => config[1].show = args.show
            /\ \A key \in {"fail_project_under", "fail_any_item_under"} :
                  ~ (args[key].given /\ args[key].value = 0) =>
                      config[1][key] = GivenOverFile(file, args)[key]

\* A threshold given as 0 is the configuration's threshold.
C21_ZeroThresholdOverrides ==
    LintConfigured =>
        /\ args.fail_project_under = Given(0) => config[1].fail_project_under = 0
        /\ args.fail_any_item_under = Given(0) => config[1].fail_any_item_under = 0

\* Without --show the configuration keeps the show value of the file.
C21_ShowNotGivenKeepsFile ==
    LintConfigured /\ ~ args.show_given =>
        \E file \in ConfigFiles : config[1].show = file.show

(* C21: in lint, every option given on the command line (--namespace,      *)
(* --disabled-rule, --selected-rule, --fail-project-under,                 *)
(* --fail-any-item-under, --show, --debug) replaces the loaded             *)
(* configuration value of its key, a threshold of 0 included, and an       *)
(* option not given leaves the loaded value unchanged.                     *)
C21_OptionsOverrideConfiguration ==
    LintConfigured =>
        \E file \in ConfigFiles : config[1] = GivenOverFile(file, args)

====
